---- MODULE Spec2Model ----
(***************************************************************************)
(* A model of the fee ledger of fee-receipt-manager: the in-memory store   *)
(* (server/storage.ts, MemStorage) and the HTTP handlers that write it     *)
(* (server/routes.ts).  Amounts are whole currency units.  A handler       *)
(* awaits only store calls whose promises are already resolved, so it is   *)
(* suspended for microtasks alone: a request that arrives by itself is     *)
(* handled to its response before the next one starts, and the             *)
(* specifications below take one action per handler.  SpecRace is the      *)
(* exception: requests that start in the same turn of the event loop, one  *)
(* step per stretch of a handler between two awaits.  Fields a handler     *)
(* copies and never reads (names, dates) are left out of the records.      *)
(*                                                                         *)
(* Spec is the payment ledger, SpecDues the generation of dues, and        *)
(* SpecNumbering the receipt numbers, started from stores of up to         *)
(* MaxStored receipts.  SpecDefaulters is the defaulters query over dues   *)
(* of any status and students that come and go, SpecStudents the admission *)
(* of students by form and by sheet with the export, and SpecRoutes the    *)
(* transportation routes and the students that reference them.             *)
(* SpecRemoval is the removal of students that have dues and receipts.     *)
(* SpecPersistence is the data file: the saves every mutation starts, the  *)
(* writes that succeed or fail, and the restart of the process; the other  *)
(* specifications leave the saves where the constructor left them.         *)
(***************************************************************************)
EXTENDS Integers, Sequences, FiniteSets, Bags, TLC

\* ---------------------------------------------------------------- bounds
MaxStudents == 1
MaxFeeItems == 2
MaxDues == 2
MaxReceipts == 1
MaxLines == 2
MaxIssued == 2
MaxNumbered == 2
MaxStored == 1001
MaxAdmitted == 2
MaxRows == 2
MaxRoutes == 2
MaxRequests == 2
MaxSaves == 3
MaxUsers == 3

\* ------------------------------------------------------- program constants
\* routes.ts:281  storage.getRecentReceipts(1000)
RecentLimit == 1000
\* routes.ts:285  padStart(4, '0')
PadWidth == 4

\* ------------------------------------------------------------ input sets
Grades == {"1", "2"}
PayAmounts == {-1, 0, 1, 2}
\* Query strings of GET /api/generate-receipt-number, as character sequences;
\* the empty sequence is a missing parameter (routes.ts:277-278, || "").
QueryGrades == {<<>>, <<"1">>, <<"1", "0">>}
QuerySections == {<<>>, <<"A">>}

VARIABLES
    students,               \* Map<number, Student>
    feeStructure,           \* Map<number, FeeStructureItem>
    feeDues,                \* Map<number, FeeDue>
    receipts,               \* Map<number, Receipt>
    receiptItems,           \* Map<number, ReceiptItem>
    currentStudentId,
    currentFeeStructureId,
    currentFeeDueId,
    currentReceiptId,
    currentReceiptItemId,
    transportationRoutes,   \* Map<number, TransportationRoute>
    currentTransportationRouteId,
    users,                  \* Map<number, User>
    currentUserId,
    schoolSettings,         \* SchoolSettings
    dataFile,               \* what data.json holds
    savesCalled,            \* saveData() calls that have not read the store yet
    savesWriting,           \* the documents of the writeFile calls in flight
    requests,               \* the POST /api/receipts handlers in flight
    microtasks,             \* the suspended handlers, in the order they resume
    named,                  \* receipt item id -> feeDueId of its line (0: none)
    issued,                 \* receipt numbers handed out and not yet posted
    lastOp                  \* the last request and its response

vars == <<students, feeStructure, feeDues, receipts, receiptItems,
          currentStudentId, currentFeeStructureId, currentFeeDueId,
          currentReceiptId, currentReceiptItemId, transportationRoutes,
          currentTransportationRouteId, users, currentUserId, schoolSettings,
          dataFile, savesCalled, savesWriting, requests, microtasks, named,
          issued, lastOp>>

store == <<students, feeStructure, feeDues, receipts, receiptItems,
           currentStudentId, currentFeeStructureId, currentFeeDueId,
           currentReceiptId, currentReceiptItemId, transportationRoutes,
           currentTransportationRouteId>>

\* The routes and their id counter.
routing == <<transportationRoutes, currentTransportationRouteId>>

\* The users, the settings, the data file and the saves on their way to it.
persistence == <<users, currentUserId, schoolSettings, dataFile, savesCalled,
                 savesWriting>>

\* The handlers in flight.
handling == <<requests, microtasks, named>>

\* ------------------------------------------------------------- helpers
EmptyMap == [k \in {} |-> 0]

\* Map.set(id, v)
MapSet(m, id, v) == [k \in (DOMAIN m) \cup {id} |-> IF k = id THEN v ELSE m[k]]

\* { ...existing, ...patch }: the patch's fields replace the existing ones.
Merge(existing, patch) ==
    [f \in DOMAIN existing |-> IF f \in DOMAIN patch THEN patch[f] ELSE existing[f]]

\* The last request: the handler, the status of its response, what the
\* request carried (req) and what the response carried (res).
Op(name, status, req, res) ==
    [op |-> name, status |-> status, req |-> req, res |-> res]

\* ------------------------------------------------------------- Init
\* storage.ts:163-183, the fields of the default settings the model keeps.
DefaultSettings ==
    [schoolName |-> "Krishnaveni Talent School Ramannapet",
     receiptPrefix |-> "GES", theme |-> "light"]

\* storage.ts:618-624, the user seedData creates.
AdminUser == [username |-> "admin", role |-> "Administrator"]

\* data.json before the first write, and with a document in it.
NoFile == [exists |-> FALSE]
File(data) == [exists |-> TRUE, data |-> data]

\* A handler slot that holds no request.
IdleRequest == [pc |-> "idle"]

\* What the constructor leaves besides the empty maps: the default
\* settings, the admin of seedData, and two saveData() calls that have not
\* run yet, the one of createUser and the one of the constructor itself.
Constructed ==
    /\ users = 1 :> AdminUser
    /\ currentUserId = 2
    /\ schoolSettings = DefaultSettings
    /\ savesCalled = 2
    /\ savesWriting = EmptyBag
    /\ requests = [r \in 1 .. MaxRequests |-> IdleRequest]
    /\ microtasks = <<>>
    /\ named = EmptyMap

Init ==
    /\ students = EmptyMap
    /\ feeStructure = EmptyMap
    /\ feeDues = EmptyMap
    /\ receipts = EmptyMap
    /\ receiptItems = EmptyMap
    /\ currentStudentId = 1
    /\ currentFeeStructureId = 1
    /\ currentFeeDueId = 1
    /\ currentReceiptId = 1
    /\ currentReceiptItemId = 1
    /\ transportationRoutes = EmptyMap
    /\ currentTransportationRouteId = 1
    /\ Constructed
    /\ dataFile = NoFile
    /\ issued = EmptyBag
    /\ lastOp = Op("Init", 0, <<>>, <<>>)

\* ------------------------------------------------------- fee structure
\* MemStorage.getFeeStructureByGrade: the ids of the grade's items; a Map
\* iterates in insertion order, which is id order.
getFeeStructureByGrade_all(grade) == DOMAIN feeStructure

getFeeStructureByGrade(grade) ==
    {i \in DOMAIN feeStructure : feeStructure[i].grade = grade}

\* POST /api/fee-structure with a valid body.
PostFeeStructure(grade, feeType, frequency, amount) ==
    /\ feeStructure' = MapSet(feeStructure, currentFeeStructureId,
                              [grade |-> grade, feeType |-> feeType,
                               frequency |-> frequency, amount |-> amount])
    /\ currentFeeStructureId' = currentFeeStructureId + 1
    /\ lastOp' = Op("PostFeeStructure", 201, <<>>, <<>>)
    /\ UNCHANGED <<students, feeDues, receipts, receiptItems, currentStudentId,
                   currentFeeDueId, currentReceiptId, currentReceiptItemId, issued,
                   routing, persistence, handling>>

\* ------------------------------------------------------- due generation
\* The id, among ids, with k-1 smaller ids: the k-th item a Map scan yields.
NthId(ids, k) == CHOOSE i \in ids : Cardinality({j \in ids : j < i}) = k - 1

\* routes.ts:75-76 and 392-393: the month name and the year of the clock,
\* the same for every request of a run.
CurrentMonth == "May"
CurrentYear == 2025

\* routes.ts:79-88 and 399-408: the FeeDue built from one fee structure item.
\* A number in a template literal is written in decimal.
NewFeeDue(studentId, fee) ==
    [studentId |-> studentId, feeType |-> fee.feeType,
     description |-> fee.feeType \o " Fee ("
                        \o (IF fee.frequency = "Monthly" THEN CurrentMonth
                            ELSE ToString(CurrentYear)) \o ")",
     amount |-> fee.amount, amountPaid |-> 0, status |-> "Due",
     period |-> IF fee.frequency = "Monthly"
                THEN CurrentMonth \o " " \o ToString(CurrentYear)
                ELSE ToString(CurrentYear)]

\* The loop `for (const fee of feeStructure) createFeeDue(...)`: one
\* MemStorage.createFeeDue (id = currentFeeDueId++) per item of the grade.
GenerateDues(studentId, grade) ==
    LET ids == getFeeStructureByGrade(grade)
        n == Cardinality(ids)
        first == currentFeeDueId
    IN  /\ first + n - 1 <= MaxDues
        /\ feeDues' = [d \in (DOMAIN feeDues) \cup (first .. first + n - 1) |->
                          IF d >= first
                          THEN NewFeeDue(studentId, feeStructure[NthId(ids, d - first + 1)])
                          ELSE feeDues[d]]
        /\ currentFeeDueId' = first + n

\* MemStorage.createStudent: the validated record under the next id.
createStudent(student) ==
    /\ students' = MapSet(students, currentStudentId, student)
    /\ currentStudentId' = currentStudentId + 1

\* POST /api/students.  A body that fails insertStudentSchema is answered 400
\* before the store is touched.  The saveData() calls of createStudent and
\* createFeeDue are the caller's to count: savesCalled is not mentioned.  A student is the record of the fields the
\* handlers read; transportationRouteId 0 is a student without a route.
PostStudents(student, valid) ==
    /\ IF valid
       THEN /\ createStudent(student)
            /\ GenerateDues(currentStudentId, student.grade)
            /\ lastOp' = Op("PostStudents", 201, <<>>, <<>>)
       ELSE /\ lastOp' = Op("PostStudents", 400, <<>>, <<>>)
            /\ UNCHANGED <<students, currentStudentId, feeDues, currentFeeDueId>>
    /\ UNCHANGED <<feeStructure, receipts, receiptItems, currentFeeStructureId,
                   currentReceiptId, currentReceiptItemId, issued, routing,
                   users, currentUserId, schoolSettings, dataFile, savesWriting,
                   handling>>

\* POST /api/fee-dues that creates nothing for a student who holds a due of
\* one of the grade's fee types.
PostFeeDues_once(studentId, grade) ==
    /\ IF \E d \in DOMAIN feeDues, i \in getFeeStructureByGrade(grade) :
             /\ feeDues[d].studentId = studentId
             /\ feeDues[d].feeType = feeStructure[i].feeType
       THEN UNCHANGED <<feeDues, currentFeeDueId>>
       ELSE GenerateDues(studentId, grade)
    /\ lastOp' = Op("PostFeeDues", 201, [studentId |-> studentId, grade |-> grade],
                    <<>>)
    /\ UNCHANGED <<students, feeStructure, receipts, receiptItems, currentStudentId,
                   currentFeeStructureId, currentReceiptId, currentReceiptItemId,
                   issued, routing, persistence, handling>>

\* POST /api/fee-dues: dues for the studentId and grade of the body; neither
\* is looked up in the student map.  The studentId is a number, so that
\* insertFeeDueSchema accepts every due of the loop.
PostFeeDues(studentId, grade) ==
    /\ GenerateDues(studentId, grade)
    /\ lastOp' = Op("PostFeeDues", 201, [studentId |-> studentId, grade |-> grade],
                    <<>>)
    /\ UNCHANGED <<students, feeStructure, receipts, receiptItems, currentStudentId,
                   currentFeeStructureId, currentReceiptId, currentReceiptItemId,
                   issued, routing, persistence, handling>>

\* PUT /api/fee-dues/:id: MemStorage.updateFeeDue merges the validated
\* partial body into the stored due; 404 when the id is unknown.
PutFeeDue(id, patch) ==
    /\ IF id \in DOMAIN feeDues
       THEN /\ feeDues' = MapSet(feeDues, id, Merge(feeDues[id], patch))
            /\ lastOp' = Op("PutFeeDue", 200, <<>>, <<>>)
       ELSE /\ lastOp' = Op("PutFeeDue", 404, <<>>, <<>>)
            /\ UNCHANGED feeDues
    /\ UNCHANGED <<students, feeStructure, receipts, receiptItems, currentStudentId,
                   currentFeeStructureId, currentFeeDueId, currentReceiptId,
                   currentReceiptItemId, issued, routing, persistence, handling>>

\* ------------------------------------------------------- receipt numbers
DigitChars == <<"0", "1", "2", "3", "4", "5", "6", "7", "8", "9">>

\* Number.prototype.toString() of a non-negative integer.
RECURSIVE NumberToString(_)
NumberToString(n) ==
    IF n < 10 THEN <<DigitChars[n + 1]>>
    ELSE NumberToString(n \div 10) \o <<DigitChars[(n % 10) + 1]>>

\* String.prototype.padStart(width, c)
RECURSIVE PadStart(_, _, _)
PadStart(s, width, c) ==
    IF Len(s) >= width THEN s ELSE PadStart(<<c>> \o s, width, c)

\* routes.ts:285  `REC${grade}${section}${count.toString().padStart(4, '0')}`
FormatReceiptNumber(grade, section, count) ==
    <<"R", "E", "C">> \o grade \o section \o PadStart(NumberToString(count), PadWidth, "0")

\* The length of MemStorage.getRecentReceipts(limit): the receipts sorted by
\* createdAt, cut by slice(0, limit).
RecentReceiptsLength(limit) ==
    LET size == Cardinality(DOMAIN receipts)
    IN  IF size < limit THEN size ELSE limit

\* GET /api/generate-receipt-number?grade=&section=
GenerateReceiptNumber(grade, section) ==
    LET count == RecentReceiptsLength(RecentLimit) + 1
        receiptNumber == FormatReceiptNumber(grade, section, count)
    IN  /\ lastOp' = Op("GenerateReceiptNumber", 200,
                        [grade |-> grade, section |-> section], receiptNumber)
        /\ UNCHANGED <<store, persistence, handling>>

\* ------------------------------------------------------- receipt issuance
\* routes.ts:324-336: the amountPaid and status written back to the due.
ApplyPayment_strict(feeDue, amount) ==
    LET amountPaid == feeDue.amountPaid + amount
        status == IF amountPaid > feeDue.amount THEN "Paid"
                  ELSE IF amountPaid > 0 THEN "Partial"
                  ELSE "Due"
    IN  Merge(feeDue, [amountPaid |-> amountPaid, status |-> status])

ApplyPayment(feeDue, amount) ==
    LET amountPaid == feeDue.amountPaid + amount
        status == IF amountPaid >= feeDue.amount THEN "Paid"
                  ELSE IF amountPaid > 0 THEN "Partial"
                  ELSE "Due"
    IN  Merge(feeDue, [amountPaid |-> amountPaid, status |-> status])

\* routes.ts:311-338: one pass of the item loop.  st carries the maps the
\* loop writes; failed is the ZodError of insertReceiptItemSchema.parse,
\* thrown before createReceiptItem.
ProcessItem(st, item, receiptId) ==
    IF ~item.valid THEN [st EXCEPT !.failed = TRUE]
    ELSE LET st1 == [st EXCEPT
                       !.receiptItems = MapSet(@, st.currentReceiptItemId,
                                               [receiptId |-> receiptId,
                                                amount |-> item.amount]),
                       !.currentReceiptItemId = @ + 1]
         IN  IF item.feeDueId # 0 /\ item.feeDueId \in DOMAIN st1.feeDues
             THEN [st1 EXCEPT !.feeDues = MapSet(@, item.feeDueId,
                                 ApplyPayment(st1.feeDues[item.feeDueId], item.amount))]
             ELSE st1

\* routes.ts:310: `for (const item of items)`; the throw of a failed item
\* leaves the loop for the catch block of the handler.
RECURSIVE ProcessItems_lenient(_, _, _, _)
ProcessItems_lenient(st, items, k, receiptId) ==
    IF k > Len(items) THEN st
    ELSE ProcessItems_lenient(ProcessItem(st, items[k], receiptId), items, k + 1,
                              receiptId)

RECURSIVE ProcessItems(_, _, _, _)
ProcessItems(st, items, k, receiptId) ==
    IF k > Len(items) \/ st.failed THEN st
    ELSE ProcessItems(ProcessItem(st, items[k], receiptId), items, k + 1, receiptId)

RECURSIVE SumAmounts(_)
SumAmounts(items) ==
    IF items = <<>> THEN 0 ELSE Head(items).amount + SumAmounts(Tail(items))

\* POST /api/receipts with body {receipt, items}.  receiptValid is the outcome
\* of insertReceiptSchema.parse(receipt).
PostReceipts(receiptNumber, studentId, totalAmount, receiptValid, items) ==
    /\ IF ~receiptValid
       THEN /\ lastOp' = Op("PostReceipts", 400, items, "receipt")
            /\ UNCHANGED <<feeDues, receipts, receiptItems, currentReceiptId,
                           currentReceiptItemId>>
       ELSE LET id == currentReceiptId
                st == ProcessItems([feeDues |-> feeDues,
                                    receiptItems |-> receiptItems,
                                    currentReceiptItemId |-> currentReceiptItemId,
                                    failed |-> FALSE],
                                   items, 1, id)
            IN  /\ receipts' = MapSet(receipts, id,
                                      [receiptNumber |-> receiptNumber,
                                       studentId |-> studentId,
                                       totalAmount |-> totalAmount])
                /\ currentReceiptId' = id + 1
                /\ feeDues' = st.feeDues
                /\ receiptItems' = st.receiptItems
                /\ currentReceiptItemId' = st.currentReceiptItemId
                /\ lastOp' = IF st.failed
                             THEN Op("PostReceipts", 400, items, "item")
                             ELSE Op("PostReceipts", 201, items, "created")
    /\ UNCHANGED <<students, feeStructure, currentStudentId, currentFeeStructureId,
                   currentFeeDueId, routing, persistence, handling>>

\* ------------------------------------------------------------- requests
\* A line of the items array: feeDueId 0 is a line without feeDueId; a line
\* that fails insertReceiptItemSchema is read no further.
InvalidLine == [valid |-> FALSE, feeDueId |-> 0, amount |-> 0]
NoDueLine == [valid |-> TRUE, feeDueId |-> 0, amount |-> 1]
Lines ==
    {[valid |-> TRUE, feeDueId |-> d, amount |-> a] : d \in 1 .. MaxDues, a \in PayAmounts}
        \cup {NoDueLine, InvalidLine}
ItemLists == UNION {[1 .. n -> Lines] : n \in 0 .. MaxLines}

\* Bodies of PUT /api/fee-dues/:id that pass insertFeeDueSchema.partial().
Patches == {[status |-> "Overdue"], [amountPaid |-> 1]}

\* Bodies of POST /api/fee-structure.
FeeItemInputs ==
    {[grade |-> "1", feeType |-> "Tuition", frequency |-> "Monthly", amount |-> 2],
     [grade |-> "1", feeType |-> "Library", frequency |-> "Annual", amount |-> 1],
     [grade |-> "2", feeType |-> "Tuition", frequency |-> "Monthly", amount |-> 2]}

\* receipt.studentId of a body: insertReceiptSchema asks for a number, and the
\* handler looks no student up; MaxStudents + 1 names no student.
PayerIds == 1 .. MaxStudents + 1

\* receipt.totalAmount of a body: the sum the ReceiptForm sends, or another
\* number; insertReceiptSchema asks for a number and the handler compares it
\* with nothing.
TotalAmounts(items) == {SumAmounts(items), SumAmounts(items) + 1}

\* A body of POST /api/students for grade g.
StudentOfGrade(g) ==
    [admissionNumber |-> "A1", studentName |-> "Ann", grade |-> g,
     section |-> "A", transportationRouteId |-> 0]

\* The number a client is given when it asks for one right before it posts.
FreshReceiptNumber ==
    FormatReceiptNumber(<<"1">>, <<"A">>, RecentReceiptsLength(RecentLimit) + 1)

\* The payment ledger: the catalogue, admissions with their dues, direct
\* updates of a due, and receipts for any student id and total, each posted
\* under a freshly generated number.
Next ==
    \/ \E f \in FeeItemInputs :
          currentFeeStructureId <= MaxFeeItems
          /\ PostFeeStructure(f.grade, f.feeType, f.frequency, f.amount)
    \/ \E g \in Grades, valid \in BOOLEAN :
          currentStudentId <= MaxStudents /\ PostStudents(StudentOfGrade(g), valid)
             /\ UNCHANGED savesCalled
    \/ \E d \in 1 .. MaxDues, p \in Patches : PutFeeDue(d, p)
    \/ \E s \in PayerIds, items \in ItemLists :
          \E t \in TotalAmounts(items) :
             /\ currentReceiptId <= MaxReceipts
             /\ PostReceipts(FreshReceiptNumber, s, t, TRUE, items)
             /\ UNCHANGED issued
    \/ \E s \in PayerIds :
          /\ currentReceiptId <= MaxReceipts
          /\ PostReceipts(FreshReceiptNumber, s, 0, FALSE, <<>>)
          /\ UNCHANGED issued

Spec == Init /\ [][Next]_vars

\* ------------------------------------------------------- due generation
\* The catalogue, admissions, on-demand due generation (for student ids that
\* exist and for one that does not) and direct updates of a due.
NextDues ==
    \/ \E f \in FeeItemInputs :
          currentFeeStructureId <= MaxFeeItems
          /\ PostFeeStructure(f.grade, f.feeType, f.frequency, f.amount)
    \/ \E g \in Grades, valid \in BOOLEAN :
          currentStudentId <= MaxStudents /\ PostStudents(StudentOfGrade(g), valid)
             /\ UNCHANGED savesCalled
    \/ \E s \in 1 .. MaxStudents + 1, g \in Grades : PostFeeDues(s, g)
    \/ \E d \in 1 .. MaxDues, p \in Patches : PutFeeDue(d, p)

SpecDues == Init /\ [][NextDues]_vars

\* ------------------------------------------------------- numbering
\* The receipts a single client leaves behind that asks for a number and
\* posts a receipt without lines under it, time after time.
StoredReceipts ==
    [i \in 1 .. MaxStored |->
        [receiptNumber |->
            FormatReceiptNumber(<<"1">>, <<"A">>,
                (IF i - 1 < RecentLimit THEN i - 1 ELSE RecentLimit) + 1),
         studentId |-> 1, totalAmount |-> 0]]

\* Store sizes below MaxNumbered and around RecentLimit.
StoredCounts ==
    {n \in 0 .. MaxStored : n <= MaxNumbered \/ n >= RecentLimit - 1}

InitNumbering ==
    /\ students = EmptyMap
    /\ feeStructure = EmptyMap
    /\ feeDues = EmptyMap
    /\ \E n \in StoredCounts :
          /\ receipts = [i \in 1 .. n |-> StoredReceipts[i]]
          /\ currentReceiptId = n + 1
    /\ receiptItems = EmptyMap
    /\ currentStudentId = 1
    /\ currentFeeStructureId = 1
    /\ currentFeeDueId = 1
    /\ currentReceiptItemId = 1
    /\ transportationRoutes = EmptyMap
    /\ currentTransportationRouteId = 1
    /\ Constructed
    /\ dataFile = NoFile
    /\ issued = EmptyBag
    /\ lastOp = Op("Init", 0, <<>>, <<>>)

\* A client asks for a receipt number and keeps it.
ClientGenerate(grade, section) ==
    /\ BagCardinality(issued) < MaxIssued
    /\ GenerateReceiptNumber(grade, section)
    /\ issued' = issued (+) SetToBag({lastOp'.res})

\* A client posts a receipt without lines under a number it was given.
ClientPost(receiptNumber) ==
    /\ currentReceiptId <= MaxNumbered
    /\ BagIn(receiptNumber, issued)
    /\ PostReceipts(receiptNumber, 1, 0, TRUE, <<>>)
    /\ issued' = issued (-) SetToBag({receiptNumber})

NextNumbering ==
    \/ \E g \in QueryGrades, s \in QuerySections : ClientGenerate(g, s)
    \/ \E n \in BagToSet(issued) : ClientPost(n)

SpecNumbering == InitNumbering /\ [][NextNumbering]_vars

\* ------------------------------------------------------- defaulters
\* `value || "Unknown"`: the empty string is falsy.
OrUnknown(value) == IF value = "" THEN "Unknown" ELSE value

\* storage.ts:525-533: the due spread into a row, with `student?.field ||
\* "Unknown"` for the three display fields.
DefaulterRow(id) ==
    LET feeDue == feeDues[id]
        found == feeDue.studentId \in DOMAIN students
        student == students[feeDue.studentId]
    IN  [id |-> id, studentId |-> feeDue.studentId, feeType |-> feeDue.feeType,
         amount |-> feeDue.amount, amountPaid |-> feeDue.amountPaid,
         status |-> feeDue.status,
         studentName |-> IF found THEN OrUnknown(student.studentName) ELSE "Unknown",
         grade |-> IF found THEN OrUnknown(student.grade) ELSE "Unknown",
         admissionNumber |->
             IF found THEN OrUnknown(student.admissionNumber) ELSE "Unknown"]

\* MemStorage.getDefaulters: the rows of the dues that pass the status filter,
\* in the order of the Map, which is id order.
getDefaulters_pending ==
    LET ids == {d \in DOMAIN feeDues :
                   feeDues[d].status \in {"Overdue", "Due", "Partial"}}
    IN  [k \in 1 .. Cardinality(ids) |-> DefaulterRow(NthId(ids, k))]

getDefaulters ==
    LET ids == {d \in DOMAIN feeDues : feeDues[d].status \in {"Overdue", "Due"}}
    IN  [k \in 1 .. Cardinality(ids) |-> DefaulterRow(NthId(ids, k))]

\* GET /api/defaulters
GetDefaulters ==
    /\ lastOp' = Op("GetDefaulters", 200, <<>>, getDefaulters)
    /\ UNCHANGED <<store, issued, persistence, handling>>

\* DELETE /api/students/:id that takes the student's dues along.
DeleteStudent_cascade(id) ==
    /\ IF id \in DOMAIN students
       THEN /\ students' = [k \in (DOMAIN students) \ {id} |-> students[k]]
            /\ feeDues' = [d \in {e \in DOMAIN feeDues : feeDues[e].studentId # id}
                              |-> feeDues[d]]
            /\ lastOp' = Op("DeleteStudent", 204, id, <<>>)
       ELSE /\ lastOp' = Op("DeleteStudent", 404, id, <<>>)
            /\ UNCHANGED <<students, feeDues>>
    /\ UNCHANGED <<feeStructure, receipts, receiptItems, currentStudentId,
                   currentFeeStructureId, currentFeeDueId, currentReceiptId,
                   currentReceiptItemId, issued, routing, persistence, handling>>

\* DELETE /api/students/:id: MemStorage.deleteStudent removes the student and
\* nothing else; the student's dues stay.
DeleteStudent(id) ==
    /\ IF id \in DOMAIN students
       THEN /\ students' = [k \in (DOMAIN students) \ {id} |-> students[k]]
            /\ lastOp' = Op("DeleteStudent", 204, id, <<>>)
       ELSE /\ lastOp' = Op("DeleteStudent", 404, id, <<>>)
            /\ UNCHANGED students
    /\ UNCHANGED <<feeStructure, feeDues, receipts, receiptItems, currentStudentId,
                   currentFeeStructureId, currentFeeDueId, currentReceiptId,
                   currentReceiptItemId, issued, routing, persistence, handling>>

\* Bodies of POST /api/students: insertStudentSchema asks for strings and
\* accepts the empty one.
DefaulterStudents ==
    {StudentOfGrade("1"),
     [admissionNumber |-> "", studentName |-> "", grade |-> "1",
      section |-> "A", transportationRouteId |-> 0]}

\* Bodies of PUT /api/fee-dues/:id that set the status; the column is free
\* text.
StatusPatches == {[status |-> st] : st \in {"Due", "Partial", "Paid", "Overdue"}}

\* The catalogue, admissions, removals of students, direct updates of the
\* status of a due, and the defaulters query.
NextDefaulters ==
    \/ \E f \in FeeItemInputs :
          currentFeeStructureId <= MaxFeeItems
          /\ PostFeeStructure(f.grade, f.feeType, f.frequency, f.amount)
    \/ \E st \in DefaulterStudents, valid \in BOOLEAN :
          currentStudentId <= MaxStudents /\ PostStudents(st, valid)
             /\ UNCHANGED savesCalled
    \/ \E s \in 1 .. MaxStudents : DeleteStudent(s)
    \/ \E d \in 1 .. MaxDues, p \in StatusPatches : PutFeeDue(d, p)
    \/ GetDefaulters

SpecDefaulters == Init /\ [][NextDefaulters]_vars

\* ------------------------------------------------------- students
\* PUT /api/students/:id: MemStorage.updateStudent merges the validated
\* partial body into the stored student; 404 when the id is unknown.
PutStudent(id, patch) ==
    /\ IF id \in DOMAIN students
       THEN /\ students' = MapSet(students, id, Merge(students[id], patch))
            /\ lastOp' = Op("PutStudent", 200, <<>>, <<>>)
       ELSE /\ lastOp' = Op("PutStudent", 404, <<>>, <<>>)
            /\ UNCHANGED students
    /\ UNCHANGED <<feeStructure, feeDues, receipts, receiptItems, currentStudentId,
                   currentFeeStructureId, currentFeeDueId, currentReceiptId,
                   currentReceiptItemId, issued, routing, persistence, handling>>

\* row['column'] of a row of sheet_to_json: a row is a function from the
\* headers of its filled cells to the cells' text, and a cell that is not
\* there reads as undefined, falsy like the empty string.
Cell(row, column) == IF column \in DOMAIN row THEN row[column] ELSE ""

\* a || b
Or(a, b) == IF a = "" THEN b ELSE a

\* routes.ts:664-675: the student built from a row.  The object has no
\* transportationRouteId.
RowStudent(row) ==
    [admissionNumber |-> Or(Or(Cell(row, "Admission No."), Cell(row, "AdmissionNumber")), ""),
     studentName |-> Or(Or(Cell(row, "Student Name"), Cell(row, "StudentName")), ""),
     grade |-> Or(Or(Cell(row, "Class"), Cell(row, "Grade")), ""),
     section |-> Or(Cell(row, "Section"), "A"),
     transportationRouteId |-> 0]

\* The cells Number() turns into a number; of any other text it makes NaN.
NumericCells == {"0", "7"}

\* routes.ts:678 insertStudentSchema.parse(student): every text field is a
\* string, whatever the row; rollNumber, Number(cell || cell || 0), fails
\* when it is NaN.
RowValid(row) == Or(Or(Cell(row, "Roll No."), Cell(row, "RollNumber")), "0") \in NumericCells

\* routes.ts:661-685: the loop over the rows; a row that fails validation is
\* skipped, the others are stored by MemStorage.createStudent.  No due is
\* created.
RECURSIVE ImportRows(_, _, _)
ImportRows(st, rows, k) ==
    IF k > Len(rows) THEN st
    ELSE ImportRows(IF RowValid(rows[k])
                    THEN [students |-> MapSet(st.students, st.currentStudentId,
                                              RowStudent(rows[k])),
                          currentStudentId |-> st.currentStudentId + 1,
                          importedCount |-> st.importedCount + 1]
                    ELSE st,
                    rows, k + 1)

\* POST /api/excel/import-students.  validBody is `excelData` being a
\* non-empty string; rows is what sheet_to_json reads from its first sheet.
ImportStudents(validBody, rows) ==
    /\ IF validBody
       THEN LET st == ImportRows([students |-> students,
                                  currentStudentId |-> currentStudentId,
                                  importedCount |-> 0], rows, 1)
            IN  /\ students' = st.students
                /\ currentStudentId' = st.currentStudentId
                /\ lastOp' = Op("ImportStudents", 200, rows,
                                [importedCount |-> st.importedCount,
                                 totalRows |-> Len(rows)])
       ELSE /\ lastOp' = Op("ImportStudents", 400, rows, <<>>)
            /\ UNCHANGED <<students, currentStudentId>>
    /\ UNCHANGED <<feeStructure, feeDues, receipts, receiptItems,
                   currentFeeStructureId, currentFeeDueId, currentReceiptId,
                   currentReceiptItemId, issued, routing, persistence, handling>>

\* routes.ts:704-711: the students of the grade of the query, all of them
\* when the query has none.
ExportedIds(grade) ==
    IF grade = "" THEN DOMAIN students
    ELSE {i \in DOMAIN students : students[i].grade = grade}

\* routes.ts:714-725: the row of a student, without the columns of the
\* fields the model leaves out.
ExportRow(student) ==
    ("Admission No." :> student.admissionNumber)
        @@ ("Student Name" :> student.studentName)
        @@ ("Class" :> student.grade)
        @@ ("Section" :> student.section)

\* GET /api/excel/export-students?grade=.  A stored admissionDate is the
\* string that insertStudentSchema passed (schema.ts:115, a date column in
\* string mode; routes.ts:674 builds an ISO string): routes.ts:724 calls
\* toISOString on it, which a string does not have, so the map callback
\* throws a TypeError for the first student and the handler answers 500.
ExportStudents(grade) ==
    LET ids == ExportedIds(grade)
    IN  /\ lastOp' = IF ids # {}
                     THEN Op("ExportStudents", 500, grade, <<>>)
                     ELSE Op("ExportStudents", 200, grade,
                             [k \in 1 .. Cardinality(ids) |->
                                 ExportRow(students[NthId(ids, k)])])
        /\ UNCHANGED <<store, issued, persistence, handling>>

\* Bodies of POST /api/students: two students, the second with an empty
\* section, which insertStudentSchema accepts.
StudentInputs ==
    {StudentOfGrade("1"),
     [admissionNumber |-> "A2", studentName |-> "Bob", grade |-> "2",
      section |-> "", transportationRouteId |-> 0]}

\* Bodies of PUT /api/students/:id that pass insertStudentSchema.partial().
StudentPatches == {[admissionNumber |-> "A1"], [section |-> "B"]}

\* Rows of an uploaded sheet: under the headers the export writes, under the
\* alternative headers with no Section cell, and with a roll number that is
\* no number.
SheetRows ==
    {("Admission No." :> "A1") @@ ("Student Name" :> "Ann") @@ ("Class" :> "1")
         @@ ("Section" :> "B") @@ ("Roll No." :> "7"),
     ("AdmissionNumber" :> "A2") @@ ("StudentName" :> "Bob") @@ ("Grade" :> "1"),
     ("Admission No." :> "A3") @@ ("Student Name" :> "Cy") @@ ("Class" :> "1")
         @@ ("Roll No." :> "x")}
RowLists == UNION {[1 .. n -> SheetRows] : n \in 0 .. MaxRows}

\* The grade of the query of an export; the empty string is no grade.
ExportGrades == {"", "1"}

\* The catalogue, admissions by form and by sheet, updates of students, the
\* export, and the import of the sheet an export returned.
NextStudents ==
    \/ \E f \in FeeItemInputs :
          currentFeeStructureId <= MaxFeeItems
          /\ PostFeeStructure(f.grade, f.feeType, f.frequency, f.amount)
    \/ \E st \in StudentInputs, valid \in BOOLEAN :
          currentStudentId <= MaxAdmitted /\ PostStudents(st, valid)
             /\ UNCHANGED savesCalled
    \/ \E id \in 1 .. MaxAdmitted, p \in StudentPatches : PutStudent(id, p)
    \/ \E rows \in RowLists :
          currentStudentId + Len(rows) - 1 <= MaxAdmitted
          /\ ImportStudents(TRUE, rows)
    \/ ImportStudents(FALSE, <<>>)
    \/ \E g \in ExportGrades : ExportStudents(g)
    \/ /\ lastOp.op = "ExportStudents"
       /\ lastOp.status = 200
       /\ ImportStudents(TRUE, lastOp.res)

SpecStudents == Init /\ [][NextStudents]_vars

\* ------------------------------------------------------- routes
\* POST /api/transportation-routes with a valid body.
PostTransportationRoute(routeName) ==
    /\ transportationRoutes' = MapSet(transportationRoutes,
                                      currentTransportationRouteId,
                                      [routeName |-> routeName])
    /\ currentTransportationRouteId' = currentTransportationRouteId + 1
    /\ lastOp' = Op("PostTransportationRoute", 201, <<>>, <<>>)
    /\ UNCHANGED <<students, feeStructure, feeDues, receipts, receiptItems,
                   currentStudentId, currentFeeStructureId, currentFeeDueId,
                   currentReceiptId, currentReceiptItemId, issued, persistence,
                   handling>>

\* MemStorage.getStudentsByTransportationRoute: the ids of the students whose
\* transportationRouteId is routeId.
getStudentsByTransportationRoute_none(routeId) == {}

getStudentsByTransportationRoute(routeId) ==
    {i \in DOMAIN students : students[i].transportationRouteId = routeId}

\* DELETE /api/transportation-routes/:id: 400 while a student uses the
\* route; else MemStorage.deleteTransportationRoute, 404 when Map.delete
\* found nothing.
DeleteTransportationRoute(id) ==
    /\ IF getStudentsByTransportationRoute(id) # {}
       THEN /\ lastOp' = Op("DeleteTransportationRoute", 400, id, <<>>)
            /\ UNCHANGED transportationRoutes
       ELSE /\ transportationRoutes' =
                  [k \in (DOMAIN transportationRoutes) \ {id} |->
                      transportationRoutes[k]]
            /\ lastOp' = Op("DeleteTransportationRoute",
                            IF id \in DOMAIN transportationRoutes THEN 204 ELSE 404,
                            id, <<>>)
    /\ UNCHANGED <<students, feeStructure, feeDues, receipts, receiptItems,
                   currentStudentId, currentFeeStructureId, currentFeeDueId,
                   currentReceiptId, currentReceiptItemId,
                   currentTransportationRouteId, issued, persistence, handling>>

\* Bodies of POST /api/students without a route and with route 1; the
\* handler looks no route up.
RouteStudents ==
    {StudentOfGrade("1"), [StudentOfGrade("1") EXCEPT !.transportationRouteId = 1]}

\* Bodies of PUT /api/students/:id that set or clear the route.
RoutePatches == {[transportationRouteId |-> r] : r \in 0 .. MaxRoutes}

\* Routes, and students that take, change and leave them.
NextRoutes ==
    \/ currentTransportationRouteId <= MaxRoutes /\ PostTransportationRoute("North")
    \/ \E id \in 1 .. MaxRoutes + 1 : DeleteTransportationRoute(id)
    \/ \E st \in RouteStudents, valid \in BOOLEAN :
          currentStudentId <= MaxAdmitted /\ PostStudents(st, valid)
             /\ UNCHANGED savesCalled
    \/ \E id \in 1 .. MaxAdmitted, p \in RoutePatches : PutStudent(id, p)
    \/ \E id \in 1 .. MaxAdmitted : DeleteStudent(id)

SpecRoutes == Init /\ [][NextRoutes]_vars

\* ------------------------------------------------------- requests in flight
\* POST /api/receipts, one step per stretch between two awaits.  A handler
\* in flight is [pc, items, k, receiptId, read]: k is the line the loop is
\* at, read what getFeeDue returned for it.  pc is the await the handler is
\* suspended at: "created" (createReceipt), "stored" (createReceiptItem),
\* "read" (getFeeDue), "written" (updateFeeDue); "done" after the response.
NotRead == [found |-> FALSE]

\* routes.ts:324-336 and storage.ts:503-507: the due updateFeeDue stores,
\* amountPaid and status worked out from the due getFeeDue returned and
\* spread over the due the Map holds at the time of the call.
WriteBack_fresh(read, existing, amount) == ApplyPayment(existing, amount)

WriteBack(read, existing, amount) ==
    Merge(existing, [amountPaid |-> ApplyPayment(read, amount).amountPaid,
                     status |-> ApplyPayment(read, amount).status])

\* routes.ts:310-316 and 341-344: the head of the loop for line req.k.  After
\* the last line the response is 201; a line that fails
\* insertReceiptItemSchema throws, and the response is 400; any other line
\* is stored by createReceiptItem.  m carries the maps the handler writes.
LoopHead(m) ==
    LET req == m.req
    IN  IF req.k > Len(req.items)
        THEN [m EXCEPT !.req = [pc |-> "done", status |-> 201, items |-> req.items]]
        ELSE IF ~req.items[req.k].valid
        THEN [m EXCEPT !.req = [pc |-> "done", status |-> 400, items |-> req.items]]
        ELSE LET item == req.items[req.k]
                 id == m.currentReceiptItemId
             IN  [m EXCEPT
                    !.receiptItems = MapSet(@, id, [receiptId |-> req.receiptId,
                                                    amount |-> item.amount]),
                    !.currentReceiptItemId = id + 1,
                    !.named = MapSet(@, id, item.feeDueId),
                    !.req = [req EXCEPT !.pc = "stored"]]

NextLine(m) == LoopHead([m EXCEPT !.req.k = @ + 1, !.req.read = NotRead])

\* The stretch a suspended handler runs when it resumes, up to its next
\* await or its response.
Resume(m) ==
    LET req == m.req
        item == req.items[req.k]
    IN  CASE req.pc = "created" -> LoopHead(m)
          [] req.pc = "stored" ->
                IF item.feeDueId # 0
                THEN [m EXCEPT !.req.pc = "read",
                               !.req.read =
                                  IF item.feeDueId \in DOMAIN m.feeDues
                                  THEN [found |-> TRUE,
                                        due |-> m.feeDues[item.feeDueId]]
                                  ELSE NotRead]
                ELSE NextLine(m)
          [] req.pc = "read" ->
                IF req.read.found
                THEN [m EXCEPT !.req.pc = "written",
                               !.feeDues = MapSet(@, item.feeDueId,
                                              WriteBack(req.read.due,
                                                        m.feeDues[item.feeDueId],
                                                        item.amount))]
                ELSE NextLine(m)
          [] req.pc = "written" -> NextLine(m)

\* The requests that are suspended.
InFlight == {microtasks[i] : i \in DOMAIN microtasks}

\* A POST /api/receipts arrives whose receipt passes insertReceiptSchema:
\* the handler runs to its first await, of createReceipt.  A handler starts
\* beside suspended ones only in the turn of the event loop in which they
\* started, before any of them has resumed: requests that were read from a
\* connection together.
BeginReceipt(r, studentId, items) ==
    /\ requests[r].pc = "idle"
    /\ \A q \in InFlight : requests[q].pc = "created"
    /\ receipts' = MapSet(receipts, currentReceiptId,
                          [receiptNumber |-> FreshReceiptNumber,
                           studentId |-> studentId,
                           totalAmount |-> SumAmounts(items)])
    /\ currentReceiptId' = currentReceiptId + 1
    /\ requests' = [requests EXCEPT ![r] =
                       [pc |-> "created", items |-> items, k |-> 1,
                        receiptId |-> currentReceiptId, read |-> NotRead]]
    /\ microtasks' = Append(microtasks, r)
    /\ lastOp' = Op("BeginReceipt", 0, r, <<>>)
    /\ UNCHANGED <<students, feeStructure, feeDues, receiptItems, currentStudentId,
                   currentFeeStructureId, currentFeeDueId, currentReceiptItemId,
                   named, issued, routing, persistence>>

\* The microtask at the head of the queue runs: its handler resumes, and is
\* queued again behind the others unless it has responded.
ResumeHandler ==
    /\ microtasks # <<>>
    /\ LET r == Head(microtasks)
           m == Resume([feeDues |-> feeDues, receiptItems |-> receiptItems,
                        currentReceiptItemId |-> currentReceiptItemId,
                        named |-> named, req |-> requests[r]])
       IN  /\ feeDues' = m.feeDues
           /\ receiptItems' = m.receiptItems
           /\ currentReceiptItemId' = m.currentReceiptItemId
           /\ named' = m.named
           /\ requests' = [requests EXCEPT ![r] = m.req]
           /\ microtasks' = IF m.req.pc = "done" THEN Tail(microtasks)
                            ELSE Append(Tail(microtasks), r)
           /\ lastOp' = Op("ResumeHandler",
                           IF m.req.pc = "done" THEN m.req.status ELSE 0,
                           r, m.req.pc)
    /\ UNCHANGED <<students, feeStructure, receipts, currentStudentId,
                   currentFeeStructureId, currentFeeDueId, currentReceiptId,
                   issued, routing, persistence>>

\* Lines of the receipts in flight: a payment on due 1, which is unknown
\* until a student is admitted, a line without a due and a line that fails
\* insertReceiptItemSchema.
RaceLines == {[valid |-> TRUE, feeDueId |-> 1, amount |-> 1], NoDueLine, InvalidLine}
RaceItemLists == UNION {[1 .. n -> RaceLines] : n \in 0 .. MaxLines}

\* The catalogue and admissions while no handler is suspended, and receipts
\* that may start together.
NextRace ==
    \/ \E f \in FeeItemInputs :
          /\ microtasks = <<>>
          /\ currentFeeStructureId <= MaxFeeItems
          /\ PostFeeStructure(f.grade, f.feeType, f.frequency, f.amount)
    \/ \E g \in Grades :
          /\ microtasks = <<>>
          /\ currentStudentId <= MaxStudents
          /\ PostStudents(StudentOfGrade(g), TRUE)
          /\ UNCHANGED savesCalled
    \/ \E r \in 1 .. MaxRequests, items \in RaceItemLists :
          BeginReceipt(r, MaxStudents, items)
    \/ ResumeHandler

SpecRace == Init /\ [][NextRace]_vars

\* ------------------------------------------------------- removal
\* Lines of the receipts of a student who is removed later.
RemovalItemLists ==
    {<<>>, <<[valid |-> TRUE, feeDueId |-> 1, amount |-> 1]>>, <<NoDueLine>>}

\* The catalogue, admissions, receipts and the removal of students, stored
\* or not.
NextRemoval ==
    \/ \E f \in FeeItemInputs :
          currentFeeStructureId <= MaxFeeItems
          /\ PostFeeStructure(f.grade, f.feeType, f.frequency, f.amount)
    \/ \E g \in Grades :
          currentStudentId <= MaxStudents /\ PostStudents(StudentOfGrade(g), TRUE)
             /\ UNCHANGED savesCalled
    \/ \E s \in PayerIds, items \in RemovalItemLists :
          /\ currentReceiptId <= MaxReceipts
          /\ PostReceipts(FreshReceiptNumber, s, SumAmounts(items), TRUE, items)
          /\ UNCHANGED issued
    \/ \E s \in 1 .. MaxStudents + 1 : DeleteStudent(s)

SpecRemoval == Init /\ [][NextRemoval]_vars

\* ------------------------------------------------------- persistence
\* MemStorage.updateSchoolSettings that keeps nothing of the stored value.
updateSchoolSettings_replace(settings) == settings

\* storage.ts:199-202: {...this.schoolSettings, ...settings}.
updateSchoolSettings(settings) ==
    [f \in (DOMAIN schoolSettings) \cup (DOMAIN settings) |->
        IF f \in DOMAIN settings THEN settings[f] ELSE schoolSettings[f]]

\* Saves that were called and have not ended.
SavesOutstanding == savesCalled + BagCardinality(savesWriting)

\* PUT /api/settings: req.body goes to updateSchoolSettings as it is, and
\* the handler answers 200 with the stored settings.  updateSchoolSettings
\* calls saveData().
PutSettings(body) ==
    /\ schoolSettings' = updateSchoolSettings(body)
    /\ savesCalled' = savesCalled + 1
    /\ lastOp' = Op("PutSettings", 200, body, schoolSettings')
    /\ UNCHANGED <<store, issued, users, currentUserId, dataFile, savesWriting,
                   handling>>

\* storage.ts:656-665: the document saveData builds from the maps and the
\* settings at the moment it resumes after its import.
Document ==
    [students |-> students, feeStructure |-> feeStructure, receipts |-> receipts,
     receiptItems |-> receiptItems, feeDues |-> feeDues, users |-> users,
     transportationRoutes |-> transportationRoutes,
     schoolSettings |-> schoolSettings]

\* A saveData() call resumes: it builds its document and starts
\* fs.writeFile.
SaveSnapshot ==
    /\ savesCalled > 0
    /\ savesCalled' = savesCalled - 1
    /\ savesWriting' = savesWriting (+) SetToBag({Document})
    /\ lastOp' = Op("SaveSnapshot", 0, <<>>, <<>>)
    /\ UNCHANGED <<store, issued, users, currentUserId, schoolSettings, dataFile,
                   handling>>

\* A write of saveData ends.  When it succeeded the file holds the document.
\* When it failed the catch block calls seedData(): createUser stores one
\* more admin under the next id and calls saveData() again.
WriteDone(data, ok) ==
    /\ BagIn(data, savesWriting)
    /\ savesWriting' = savesWriting (-) SetToBag({data})
    /\ IF ok
       THEN /\ dataFile' = File(data)
            /\ UNCHANGED <<users, currentUserId, savesCalled>>
       ELSE /\ currentUserId <= MaxUsers
            /\ users' = MapSet(users, currentUserId, AdminUser)
            /\ currentUserId' = currentUserId + 1
            /\ savesCalled' = savesCalled + 1
            /\ UNCHANGED dataFile
    /\ lastOp' = Op("WriteDone", IF ok THEN 0 ELSE 1, <<>>, <<>>)
    /\ UNCHANGED <<store, issued, schoolSettings, handling>>

\* The process ends, its saves with it, and is started again: the
\* constructor makes the maps anew, sets the default settings, seeds the
\* admin and calls saveData(); it does not call loadData.  The file stays
\* as the last write left it.
Restart ==
    /\ students' = EmptyMap
    /\ feeStructure' = EmptyMap
    /\ feeDues' = EmptyMap
    /\ receipts' = EmptyMap
    /\ receiptItems' = EmptyMap
    /\ transportationRoutes' = EmptyMap
    /\ currentStudentId' = 1
    /\ currentFeeStructureId' = 1
    /\ currentFeeDueId' = 1
    /\ currentReceiptId' = 1
    /\ currentReceiptItemId' = 1
    /\ currentTransportationRouteId' = 1
    /\ users' = 1 :> AdminUser
    /\ currentUserId' = 2
    /\ schoolSettings' = DefaultSettings
    /\ savesCalled' = 2
    /\ savesWriting' = EmptyBag
    /\ lastOp' = Op("Restart", 0, <<>>, <<>>)
    /\ UNCHANGED <<dataFile, issued, handling>>

\* Bodies of PUT /api/settings: one field, every field, and a field the
\* settings do not have.
SettingsBodies ==
    {[schoolName |-> "Hill School"],
     [schoolName |-> "Hill School", receiptPrefix |-> "HS", theme |-> "dark"],
     [motto |-> "Learn"]}

\* Admissions and settings updates with the saves they call (createStudent
\* one, every createFeeDue one), the saves as they run and end, and
\* restarts.
NextPersistence ==
    \/ \E g \in Grades :
          /\ currentStudentId <= MaxStudents
          /\ SavesOutstanding < MaxSaves
          /\ PostStudents(StudentOfGrade(g), TRUE)
          /\ savesCalled' = savesCalled + 1
                               + Cardinality(getFeeStructureByGrade(g))
    \/ \E body \in SettingsBodies :
          SavesOutstanding < MaxSaves /\ PutSettings(body)
    \/ SaveSnapshot
    \/ \E data \in BagToSet(savesWriting), ok \in BOOLEAN : WriteDone(data, ok)
    \/ Restart

SpecPersistence == Init /\ [][NextPersistence]_vars

\* =================================================================
\* Properties
\* =================================================================
\* The lines of a request that the item loop reached and stored: those with
\* no failing line at or before them.
Processed(items) == {k \in 1 .. Len(items) : \A j \in 1 .. k : items[j].valid}

\* The processed lines that name due d.
LinesOn(items, d) == {k \in Processed(items) : items[k].feeDueId = d}

\* The valid lines that name due d, processed or not.
ValidLinesOn(items, d) ==
    {k \in 1 .. Len(items) : items[k].valid /\ items[k].feeDueId = d}

RECURSIVE SumOver(_, _)
SumOver(items, S) ==
    IF S = {} THEN 0
    ELSE LET k == CHOOSE x \in S : TRUE
         IN  items[k].amount + SumOver(items, S \ {k})

IsIssuance(op) == op.op = "PostReceipts" /\ op.res # "receipt"

\* C1: a payment p applied to a due d with 0 < p <= d.amount - d.amountPaid
\* raises d.amountPaid by exactly p, and leaves d Paid iff amountPaid >= amount,
\* Partial iff 0 < amountPaid < amount, Due otherwise.  Stated of every
\* issuance and every due all of whose applied lines meet the precondition at
\* the moment they are applied.
C1_PaymentApplication ==
    [][IsIssuance(lastOp') =>
         \A d \in DOMAIN feeDues :
            LET items == lastOp'.req
                on == LinesOn(items, d)
                before(k) == feeDues[d].amountPaid
                               + SumOver(items, {j \in on : j < k})
                after == feeDues'[d]
            IN  (/\ on # {}
                 /\ \A k \in on : /\ 0 < items[k].amount
                                  /\ items[k].amount <= feeDues[d].amount - before(k))
                => /\ after.amountPaid = feeDues[d].amountPaid + SumOver(items, on)
                   /\ after.amount = feeDues[d].amount
                   /\ (after.status = "Paid") <=> (after.amountPaid >= after.amount)
                   /\ (after.status = "Partial")
                         <=> (0 < after.amountPaid /\ after.amountPaid < after.amount)
                   /\ (after.status = "Due")
                         <=> ~(after.amountPaid >= after.amount) /\ ~(0 < after.amountPaid)
      ]_vars

\* Two payments of 1 on a due of 2 in one issuance: Partial, then Paid.
C1_Witness ==
    /\ IsIssuance(lastOp)
    /\ \E d \in DOMAIN feeDues :
          /\ lastOp.req = <<[valid |-> TRUE, feeDueId |-> d, amount |-> 1],
                            [valid |-> TRUE, feeDueId |-> d, amount |-> 1]>>
          /\ feeDues[d].amount = 2
          /\ feeDues[d].amountPaid = 2
          /\ feeDues[d].status = "Paid"

\* C2: every FeeDue always satisfies 0 <= amountPaid <= amount.
C2_AmountPaidInRange ==
    \A d \in DOMAIN feeDues :
        0 <= feeDues[d].amountPaid /\ feeDues[d].amountPaid <= feeDues[d].amount

\* C3: no receipt issuance lowers the amountPaid of a FeeDue.
C3_Monotonic ==
    [][IsIssuance(lastOp') =>
         \A d \in DOMAIN feeDues : feeDues'[d].amountPaid >= feeDues[d].amountPaid
      ]_vars

\* C4: a payment of 0 changes neither amountPaid nor status of the due it
\* names, whatever the due's status.
C4_ZeroPayment ==
    [][IsIssuance(lastOp') =>
         \A d \in DOMAIN feeDues :
            LET items == lastOp'.req
                on == LinesOn(items, d)
            IN  (on # {} /\ \A k \in on : items[k].amount = 0)
                => /\ feeDues'[d].amountPaid = feeDues[d].amountPaid
                   /\ feeDues'[d].status = feeDues[d].status
      ]_vars

\* C5: the stored status of every FeeDue that is not Overdue agrees with its
\* amounts: Due iff amountPaid = 0, Partial iff 0 < amountPaid < amount, Paid
\* iff amountPaid >= amount.
C5_StatusAgrees ==
    \A d \in DOMAIN feeDues :
        LET due == feeDues[d]
        IN  due.status # "Overdue"
            => /\ (due.status = "Due") <=> (due.amountPaid = 0)
               /\ (due.status = "Partial")
                     <=> (0 < due.amountPaid /\ due.amountPaid < due.amount)
               /\ (due.status = "Paid") <=> (due.amountPaid >= due.amount)

\* C6: the dues created with a student of grade g correspond one-to-one to
\* the fee structure items of grade g, each with the item's amount,
\* amountPaid 0 and status Due; no other due is created or changed.
C6_DueGeneration ==
    [][(lastOp'.op = "PostStudents" /\ lastOp'.status = 201) =>
         LET s == currentStudentId
             g == students'[s].grade
             items == {i \in DOMAIN feeStructure : feeStructure[i].grade = g}
             new == (DOMAIN feeDues') \ (DOMAIN feeDues)
         IN  /\ \A d \in DOMAIN feeDues : feeDues'[d] = feeDues[d]
             /\ \E f \in [new -> items] :
                   /\ \A a, b \in new : f[a] = f[b] => a = b
                   /\ \A i \in items : \E a \in new : f[a] = i
                   /\ \A a \in new :
                         /\ feeDues'[a].studentId = s
                         /\ feeDues'[a].feeType = feeStructure[f[a]].feeType
                         /\ feeDues'[a].amount = feeStructure[f[a]].amount
                         /\ feeDues'[a].amountPaid = 0
                         /\ feeDues'[a].status = "Due"
      ]_vars

\* A student admitted while the catalogue holds an item of the student's
\* grade and an item of another grade: one due, for the first.
C6_Witness ==
    /\ lastOp.op = "PostStudents"
    /\ lastOp.status = 201
    /\ DOMAIN students = {1}
    /\ DOMAIN feeDues = {1}
    /\ feeDues[1].studentId = 1
    /\ \E i, j \in DOMAIN feeStructure :
          /\ feeStructure[i].grade = students[1].grade
          /\ feeStructure[j].grade # students[1].grade

\* C7: a POST /api/receipts answered with a validation error has written
\* nothing: no Receipt, no ReceiptItem, no change of a FeeDue.
C7_NoPartialWrites ==
    [][(lastOp'.op = "PostReceipts" /\ lastOp'.status = 400) =>
         /\ receipts' = receipts
         /\ receiptItems' = receiptItems
         /\ feeDues' = feeDues
      ]_vars

\* The receipt items an issuance stored.
NewItems == (DOMAIN receiptItems') \ (DOMAIN receiptItems)

C9_UniqueReceiptNumbers ==
    Cardinality({receipts[i].receiptNumber : i \in DOMAIN receipts})
        = Cardinality(DOMAIN receipts)

\* The value of a sequence of digit characters; -1 when one is no digit.
RECURSIVE DigitsValue(_)
DigitsValue(s) ==
    IF s = <<>> THEN 0
    ELSE LET last == s[Len(s)]
             rest == DigitsValue(SubSeq(s, 1, Len(s) - 1))
         IN  IF rest < 0 \/ ~(\E v \in 0 .. 9 : DigitChars[v + 1] = last) THEN -1
             ELSE 10 * rest + (CHOOSE v \in 0 .. 9 : DigitChars[v + 1] = last)

\* C10: a generated receipt number is REC, the grade, the section and a
\* sequence zero-padded to 4 digits, the sequence being the number of stored
\* Receipts plus 1.
C10_NumberFormat ==
    lastOp.op = "GenerateReceiptNumber" =>
        LET head == <<"R", "E", "C">> \o lastOp.req.grade \o lastOp.req.section
            number == lastOp.res
            digits == SubSeq(number, Len(head) + 1, Len(number))
        IN  /\ Len(number) >= Len(head) + PadWidth
            /\ SubSeq(number, 1, Len(head)) = head
            /\ Len(digits) > PadWidth => digits[1] # "0"
            /\ DigitsValue(digits) = Cardinality(DOMAIN receipts) + 1

\* The sum of the amounts of the stored ReceiptItems whose ids are in S.
RECURSIVE ItemTotal(_)
ItemTotal(S) ==
    IF S = {} THEN 0
    ELSE LET i == CHOOSE x \in S : TRUE
         IN  receiptItems[i].amount + ItemTotal(S \ {i})

\* C11: every stored Receipt has totalAmount equal to the sum of the amounts
\* of the ReceiptItems stored for it.
C11_TotalIsSumOfItems ==
    \A r \in DOMAIN receipts :
        receipts[r].totalAmount
            = ItemTotal({i \in DOMAIN receiptItems : receiptItems[i].receiptId = r})

C13_OwnDuesOnly ==
    [][IsIssuance(lastOp') =>
         LET s == receipts'[currentReceiptId].studentId
         IN  \A d \in DOMAIN feeDues :
                (feeDues[d].studentId # s \/ s \notin DOMAIN students)
                => feeDues'[d] = feeDues[d]
      ]_vars

\* The processed lines whose feeDueId resolves to no stored due.
Dangling(items) ==
    {k \in Processed(items) :
        items[k].feeDueId # 0 /\ items[k].feeDueId \notin DOMAIN feeDues}

\* C14: an issuance stores no ReceiptItem for a line whose feeDueId resolves
\* to no stored due: it stores one item per processed line that is not such
\* a line, and no more.
C14_DanglingLineAborted ==
    [][IsIssuance(lastOp') =>
         LET items == lastOp'.req
         IN  Cardinality(NewItems)
                = Cardinality(Processed(items) \ Dangling(items))
      ]_vars

\* C17: a stored due changes only in a receipt issuance.
C17_OnlyPaymentsMutate ==
    [][\A d \in (DOMAIN feeDues) \cap (DOMAIN feeDues') :
          feeDues'[d] # feeDues[d] => IsIssuance(lastOp')
      ]_vars

\* The rows of a defaulters response and the stored dues they stand for.
RowsMatchDues(rows) ==
    /\ {rows[k].id : k \in DOMAIN rows}
          = {d \in DOMAIN feeDues : feeDues[d].status \in {"Due", "Overdue"}}
    /\ \A j, k \in DOMAIN rows : rows[j].id = rows[k].id => j = k
    /\ \A k \in DOMAIN rows :
          LET due == feeDues[rows[k].id]
          IN  /\ rows[k].status = due.status
              /\ rows[k].status \notin {"Partial", "Paid"}
              /\ rows[k].studentId = due.studentId
              /\ rows[k].amount = due.amount
              /\ rows[k].amountPaid = due.amountPaid

\* C15, as the spec states it: the defaulters query returns exactly the dues
\* whose status is Due or Overdue, and every row carries the studentName,
\* grade and admissionNumber of the owning student, each "Unknown" when the
\* studentId resolves to no Student.
C15_DefaultersAsStated ==
    lastOp.op = "GetDefaulters" =>
        LET rows == lastOp.res
        IN  /\ RowsMatchDues(rows)
            /\ \A k \in DOMAIN rows :
                  LET s == rows[k].studentId
                  IN  IF s \in DOMAIN students
                      THEN /\ rows[k].studentName = students[s].studentName
                           /\ rows[k].grade = students[s].grade
                           /\ rows[k].admissionNumber = students[s].admissionNumber
                      ELSE /\ rows[k].studentName = "Unknown"
                           /\ rows[k].grade = "Unknown"
                           /\ rows[k].admissionNumber = "Unknown"

\* The display field of a row: the student's field, or "Unknown" when there
\* is no such student or the field is the empty string.
Shown(s, field) ==
    IF s \in DOMAIN students /\ students[s][field] # ""
    THEN students[s][field] ELSE "Unknown"

\* C15, amended: the defaulters query returns exactly the dues whose status
\* is Due or Overdue, and every row carries the studentName, grade and
\* admissionNumber of the owning student, each "Unknown" when the studentId
\* resolves to no Student or the student's field is the empty string.
C15_Defaulters ==
    lastOp.op = "GetDefaulters" =>
        LET rows == lastOp.res
        IN  /\ RowsMatchDues(rows)
            /\ \A k \in DOMAIN rows :
                  /\ rows[k].studentName = Shown(rows[k].studentId, "studentName")
                  /\ rows[k].grade = Shown(rows[k].studentId, "grade")
                  /\ rows[k].admissionNumber
                        = Shown(rows[k].studentId, "admissionNumber")

\* A query over a Paid due and an Overdue due of a removed student: one row,
\* the Overdue due, with "Unknown" in the display fields.
C15_Witness ==
    /\ lastOp.op = "GetDefaulters"
    /\ Len(lastOp.res) = 1
    /\ students = EmptyMap
    /\ \E d, e \in DOMAIN feeDues :
          /\ feeDues[d].status = "Paid"
          /\ feeDues[e].status = "Overdue"
          /\ lastOp.res[1].id = e
          /\ lastOp.res[1].studentName = "Unknown"
          /\ lastOp.res[1].grade = "Unknown"

\* The students a step stored under new ids.
NewStudents == (DOMAIN students') \ (DOMAIN students)

\* C16: right after an admission, by POST /api/students or by the import of
\* a sheet, every admitted student has one FeeDue per FeeStructureItem of the
\* student's grade.
C16_DuesOnEveryAdmission ==
    [][(lastOp'.op \in {"PostStudents", "ImportStudents"}) =>
         \A s \in NewStudents :
            LET items == {i \in DOMAIN feeStructure' :
                             feeStructure'[i].grade = students'[s].grade}
                dues == {d \in DOMAIN feeDues' : feeDues'[d].studentId = s}
            IN  /\ Cardinality(dues) = Cardinality(items)
                /\ \A i \in items : \E d \in dues :
                      /\ feeDues'[d].feeType = feeStructure'[i].feeType
                      /\ feeDues'[d].amount = feeStructure'[i].amount
      ]_vars

\* C18: no two stored Students have the same admissionNumber.
C18_UniqueAdmissionNumbers ==
    \A i, j \in DOMAIN students :
        i # j => students[i].admissionNumber # students[j].admissionNumber

\* C19: the deletion of a route that a student references is answered with
\* an error and changes neither the routes nor the students; a deletion
\* removes the named route, and no other, only when no student references
\* it.
C19_ReferencedRouteKept ==
    [][lastOp'.op = "DeleteTransportationRoute" =>
         LET id == lastOp'.req
             referenced == \E i \in DOMAIN students :
                              students[i].transportationRouteId = id
         IN  /\ students' = students
             /\ referenced => /\ lastOp'.status = 400
                              /\ transportationRoutes' = transportationRoutes
             /\ ~referenced => /\ lastOp'.status \in {204, 404}
                               /\ (lastOp'.status = 204) <=> (id \in DOMAIN transportationRoutes)
                               /\ DOMAIN transportationRoutes'
                                     = (DOMAIN transportationRoutes) \ {id}
             /\ \A k \in DOMAIN transportationRoutes' :
                   transportationRoutes'[k] = transportationRoutes[k]
      ]_vars

\* The deletion of a stored route that a student still references was
\* answered 400, and the route is still stored.
C19_Witness ==
    /\ lastOp.op = "DeleteTransportationRoute"
    /\ lastOp.status = 400
    /\ lastOp.req \in DOMAIN transportationRoutes
    /\ \E i \in DOMAIN students : students[i].transportationRouteId = lastOp.req

\* C20: an export of the student list succeeds, and the import of its rows
\* creates, for every exported student, a record with the same
\* admissionNumber, studentName and grade, and the same section, "A" for a
\* missing one.
C20_RoundTrip ==
    lastOp.op = "ExportStudents" =>
        /\ lastOp.status = 200
        /\ LET created == ImportRows([students |-> EmptyMap, currentStudentId |-> 1,
                                      importedCount |-> 0], lastOp.res, 1).students
           IN  \A i \in ExportedIds(lastOp.req) :
                  \E k \in DOMAIN created :
                     /\ created[k].admissionNumber = students[i].admissionNumber
                     /\ created[k].studentName = students[i].studentName
                     /\ created[k].grade = students[i].grade
                     /\ created[k].section = Or(students[i].section, "A")

\* C21: two receipts that pay a and b on the same due and interleave between
\* getFeeDue and updateFeeDue can lose an update.  Every write of a handler
\* stores the amountPaid it read plus the amount of its line, whatever was
\* written to the due since it read, and changes no other due.
C21_WriteOverwrites ==
    [][(lastOp'.op = "ResumeHandler" /\ requests[lastOp'.req].pc = "read"
           /\ requests[lastOp'.req].read.found) =>
         LET req == requests[lastOp'.req]
             item == req.items[req.k]
         IN  /\ feeDues'[item.feeDueId].amountPaid
                   = req.read.due.amountPaid + item.amount
             /\ \A d \in DOMAIN feeDues :
                   d # item.feeDueId => feeDues'[d] = feeDues[d]
      ]_vars

\* Two receipts, each one payment of 1 on the same due of 2, have been
\* answered 201 and stored one item each, and the due holds 1 of the 2.
C21_Witness ==
    /\ \A r \in 1 .. MaxRequests : requests[r].pc = "done" /\ requests[r].status = 201
    /\ \E d \in DOMAIN feeDues :
          /\ \A r \in 1 .. MaxRequests :
                requests[r].items = <<[valid |-> TRUE, feeDueId |-> d, amount |-> 1]>>
          /\ feeDues[d].amount = 2
          /\ feeDues[d].amountPaid = 1
          /\ feeDues[d].status = "Partial"
    /\ Cardinality(DOMAIN receiptItems) = MaxRequests

\* C27: ledger conservation.  With no direct update of a due and no request
\* in flight, the amountPaid of every stored due is the sum of the amounts
\* of the stored receipt items whose line named the due.
C27_LedgerConservation ==
    microtasks = <<>> =>
        \A d \in DOMAIN feeDues :
            feeDues[d].amountPaid
                = SumOver(receiptItems, {i \in DOMAIN receiptItems : named[i] = d})

\* C23: every due that due generation produced, at admission or on demand,
\* is described "<feeType> Fee (<period>)" with its own stored period,
\* whatever the frequency of its fee item.
C23_DescriptionNamesPeriod ==
    \A d \in DOMAIN feeDues :
        feeDues[d].description
            = feeDues[d].feeType \o " Fee (" \o feeDues[d].period \o ")"

\* C22: on-demand due generation is not idempotent.  Every POST /api/fee-dues
\* for (studentId, grade) creates one new due of the student per fee item
\* of the grade and changes no stored due, whether or not the student
\* already holds a due of the same fee type and period.
C22_GenerationRepeats ==
    [][(lastOp'.op = "PostFeeDues" /\ lastOp'.status = 201) =>
         LET items == {i \in DOMAIN feeStructure :
                          feeStructure[i].grade = lastOp'.req.grade}
             new == (DOMAIN feeDues') \ (DOMAIN feeDues)
         IN  /\ Cardinality(new) = Cardinality(items)
             /\ \A d \in DOMAIN feeDues : feeDues'[d] = feeDues[d]
             /\ \A a \in new : feeDues'[a].studentId = lastOp'.req.studentId
      ]_vars

\* No student was admitted, POST /api/fee-dues has answered twice, and the
\* store holds two dues of one student, fee type and period.
C22_Witness ==
    /\ lastOp.op = "PostFeeDues"
    /\ students = EmptyMap
    /\ \E a, b \in DOMAIN feeDues :
          /\ a # b
          /\ feeDues[a].studentId = feeDues[b].studentId
          /\ feeDues[a].feeType = feeDues[b].feeType
          /\ feeDues[a].period = feeDues[b].period

\* C24: POST /api/fee-dues creates dues only for a studentId that names a
\* stored student, and only from the fee items of that student's stored
\* grade.
C24_OnlyForStoredStudent ==
    [][(lastOp'.op = "PostFeeDues" /\ lastOp'.status = 201
           /\ DOMAIN feeDues' # DOMAIN feeDues) =>
         /\ lastOp'.req.studentId \in DOMAIN students
         /\ lastOp'.req.grade = students[lastOp'.req.studentId].grade
      ]_vars

C26_ReplacedWholesale ==
    [][lastOp'.op = "PutSettings" => schoolSettings' = lastOp'.req]_vars

\* C26: after updateSchoolSettings(s) every field of s is stored with the
\* value s gives it, every other field of the previous settings is stored
\* with its previous value, and no other field is stored; the response is
\* the stored settings.
C26_SettingsMerged ==
    [][lastOp'.op = "PutSettings" =>
         LET s == lastOp'.req
         IN  /\ DOMAIN schoolSettings' = (DOMAIN schoolSettings) \cup (DOMAIN s)
             /\ \A f \in DOMAIN s : schoolSettings'[f] = s[f]
             /\ \A f \in (DOMAIN schoolSettings) \ (DOMAIN s) :
                   schoolSettings'[f] = schoolSettings[f]
             /\ lastOp'.res = schoolSettings'
      ]_vars

\* The settings were updated with a school name alone: the name is stored,
\* and the receipt prefix and the theme are the defaults still.
C26_Witness ==
    /\ lastOp.op = "PutSettings"
    /\ lastOp.req = [schoolName |-> "Hill School"]
    /\ schoolSettings.schoolName = "Hill School"
    /\ schoolSettings.receiptPrefix = DefaultSettings.receiptPrefix
    /\ schoolSettings.theme = DefaultSettings.theme

\* C28: no two stored users have the same username, also after a write of
\* the data file failed.
C28_UniqueUsernames ==
    \A a, b \in DOMAIN users : a # b => users[a].username # users[b].username

\* C29: the saves a mutation starts run out.  Every write that ends, failed
\* ones too, leaves fewer saves outstanding than there were: a failed save
\* starts no save that takes its place.
C29_SavesRunOut ==
    [][lastOp'.op = "WriteDone" =>
         savesCalled' + BagCardinality(savesWriting')
            < savesCalled + BagCardinality(savesWriting)
      ]_vars

\* C30: the store of a restarted process holds the students, dues, receipts
\* and settings of the data file.
C30_RestartRestores ==
    [][(lastOp'.op = "Restart" /\ dataFile.exists) =>
         /\ students' = dataFile.data.students
         /\ feeDues' = dataFile.data.feeDues
         /\ receipts' = dataFile.data.receipts
         /\ schoolSettings' = dataFile.data.schoolSettings
      ]_vars

====
